---- MODULE Spec2Model ----
(***************************************************************************)
(* chws_subset: the download / unpack / transform / repack pipeline of     *)
(* src/chws_subset/__main__.py (main) and src/chws_subset/__init__.py.     *)
(*                                                                         *)
(* One run of main is modelled as the asyncio event loop stepping its      *)
(* tasks: one chain (download_and_process_file) per URL, the installer     *)
(* download when build_module is set, and inside process_ttc one           *)
(* unpack_and_process_ttf task per collection member.  A step is what a    *)
(* task does between two suspension points.  Worker functions run in the   *)
(* process pool; the step that ends an await carries the worker's effect   *)
(* on the file system and its outcome (returned or raised).                *)
(*                                                                         *)
(* Worker tasks still in the pool when main has raised are not followed     *)
(* further: the model of a run ends where the event loop ends.             *)
(*                                                                         *)
(* Paths are sequences of path segments.  A file's content is a record     *)
(* [head, n]: its first four bytes and the number of fonts it holds.       *)
(***************************************************************************)
EXTENDS Integers, Sequences, FiniteSets, TLC

\* ------------------------------------------------------------------ bounds
\* Total number of fonts (single fonts plus collection members) one run handles.
MaxFonts == 3
\* Glyph ids a character map may point at are 1..MaxGlyph.
MaxGlyph == 2

\* ------------------------------------------------------- program constants
\* asyncio.Semaphore(2)
SEM_CAPACITY == 2

\* URLs are sequences of path segments; only the last one matters to the code.
DEFAULT_DOWNLOADING_FONTS ==
    << <<"Serif", "Variable", "OTC", "NotoSerifCJK-VF.otf.ttc">>,
       <<"Sans", "Variable", "OTC", "NotoSansCJK-VF.otf.ttc">> >>

\* Values --url is given in the runs explored.
UrlArgs == { <<"fonts", "Custom.ttf">> }

\* URL lists for the path-derivation runs: pairwise distinct URLs, some of
\* which end in the same file name.
AnyUrls ==
    { <<"a", "Font.ttc">>, <<"b", "Font.ttc">>, <<"a", "Other.ttc">> }

INSTALLER_PATH == <<"META-INF", "com", "google", "android", "update-binary">>

temp_dir == <<"temp">>

\* HTTP statuses a server answers with (after redirects were followed).
Statuses == {200, 206, 404}

\* ------------------------------------------------------------------- paths
\* urllib.parse.urlparse(url).path.split("/")[-1]
base_file_name(url) == url[Len(url)]

\* temp_dir / "input" / base_file_name
input_file(url) == temp_dir \o <<"input", base_file_name(url)>>

\* Path("system/fonts") / base_file_name
output_file(url) == <<"system", "fonts", base_file_name(url)>>

\* Path(p).name
PathName(p) == p[Len(p)]

\* Path(in_ttc).name + f"#{index}.ttf"
MemberName(in_ttc, index) == PathName(in_ttc) \o "#" \o ToString(index) \o ".ttf"

\* Path(temp_dir) / "input_ttf" / (Path(in_ttc).name + f"#{index}.ttf")
input_ttf(in_ttc, index) == temp_dir \o <<"input_ttf", MemberName(in_ttc, index)>>

\* Path(temp_dir) / "processed_ttf" / (Path(in_ttc).name + f"#{i}.ttf")
ttf_out(in_ttc, i) == temp_dir \o <<"processed_ttf", MemberName(in_ttc, i)>>

\* Path(temp_dir) / "intermediate_chws" / Path(in_ttf).name
chws_output(in_ttf) == temp_dir \o <<"intermediate_chws", PathName(in_ttf)>>

\* Every ancestor directory of a path: what mkdir(parents=True) makes exist.
Ancestors(p) == { SubSeq(p, 1, k) : k \in 1..(Len(p) - 1) }

UnderTemp(p) == Len(p) >= 1 /\ p[1] = temp_dir[1]

\* ---------------------------------------------------------------- contents
ttf_content == [head |-> "OTTO", n |-> 1]
ttc_content(n) == [head |-> "ttcf", n |-> n]
partial_content == [head |-> "", n |-> 0]
script_content == [head |-> "#!/s", n |-> 0]
\* a file of three bytes: f.read(4) returns all of them
short_content == [head |-> "ttc", n |-> 0]

\* is_ttc reading three bytes instead of four
is_ttc_read3(content) == content.head = "ttc"

\* is_ttc taking every beginning of the tag for the tag
is_ttc_prefix(content) == content.head \in {"", "t", "tt", "ttc", "ttcf"}

\* f.read(4) == b"ttcf"
is_ttc(content) == content.head = "ttcf"

\* ------------------------------------------------------------------- state
VARIABLES
    urls,           \* main: the list of URLs of this run
    build_module,   \* main: whether the installer script is downloaded too
    resource,       \* what each URL serves: resource[a] is a content
    mainpc,         \* main: "gather", "shutdown", "exit0", "exit1"
    download_sem,   \* free slots of asyncio.Semaphore(2)
    dl,             \* download_file calls: 0 is the installer, a >= 1 asset a
    chain,          \* download_and_process_file(urls[a]): where it is suspended
    member,         \* process_ttc: member[a][i], the unpack_and_process_ttf tasks
    out_ttfs,       \* process_ttc: the list out_ttfs of asset a
    pack_args,      \* the ttfs argument pack_ttc was submitted with
    first_done,     \* index of the member of a whose transform ended first, or -1
    submits,        \* run_in_executor calls so far, per worker task
    executor,       \* "running" or "shutdown"
    rmtrees,        \* calls of shutil.rmtree(temp_dir) so far
    files,          \* the file system: path -> content
    dirs,           \* the directories that exist
    writes,         \* every mkdir and open-for-write so far, with its writer
    tf,             \* process_ttf_worker on one font (the transform runs)
    rt,             \* unpack_ttc followed by pack_ttc on one collection
    args            \* main: the parsed command line

vars == << urls, build_module, resource, mainpc, download_sem, dl, chain, member,
           out_ttfs, pack_args, first_done, submits, executor, rmtrees, files,
           dirs, writes, tf, rt, args >>

runvars == << urls, build_module, resource, mainpc, download_sem, dl, chain, member,
              out_ttfs, pack_args, first_done, submits, executor, rmtrees, files,
              dirs, writes >>

Assets == 1..Len(urls)
Installer == 0
Downloads == 0..Len(urls)

\* Writers and worker tasks are named <<kind, asset, member index>>;
\* the index is -1 where there is no member.
DownloadOf(d) == <<"download", d, -1>>
UnpackOf(a, i) == <<"unpack", a, i>>
PatchOf(a, i) == <<"patch", a, i>>
TransformOf(a, i) == <<"transform", a, i>>
PackOf(a) == <<"pack", a, -1>>

\* save_path_file_name of download d
save_path(d) == IF d = Installer THEN INSTALLER_PATH ELSE input_file(urls[d])

\* The actx argument main passes: download_sem for the fonts, none (nullcontext)
\* for the installer script.
Gated(d) == d # Installer

\* status_ok with only server errors taken as failure
status_ok_5xx(status) == status < 500

\* response.status_code != 200 is the failure test
status_ok(status) == status = 200

Contents == {ttf_content} \cup { ttc_content(n) : n \in 1..MaxFonts }

RECURSIVE FontsServed(_, _)
FontsServed(res, k) == IF k = 0 THEN 0 ELSE res[k].n + FontsServed(res, k - 1)

\* ------------------------------------------------------------ file system
\* ensure_parent_dir(path), called by writer w
MkParents(ds, p) == ds \cup Ancestors(p)
MkRecord(w, p) == [w |-> w, op |-> "mkdir", p |-> SubSeq(p, 1, Len(p) - 1)]
OpenRecord(w, p) == [w |-> w, op |-> "open", p |-> p]

\* open(path, "wb") / font.save(path)
WriteFile(fs, p, c) == (p :> c) @@ fs

\* shutil.rmtree(temp_dir)
RmtreeFiles(fs) == [p \in { q \in DOMAIN fs : ~UnderTemp(q) } |-> fs[p]]
RmtreeDirs(ds) == { q \in ds : ~UnderTemp(q) }

StagingExists == \E p \in dirs \cup DOMAIN files : UnderTemp(p)

\* run_in_executor(executor, worker, ...): one more submission of task t
SubmitAll(sub, T) ==
    [t \in DOMAIN sub \cup T |->
        (IF t \in DOMAIN sub THEN sub[t] ELSE 0) + (IF t \in T THEN 1 ELSE 0)]
Submit(sub, t) == SubmitAll(sub, {t})

Submitted(t) == IF t \in DOMAIN submits THEN submits[t] ELSE 0

\* -------------------------------------------------------------------- Init
NoTransform == [pc |-> "idle"]
NoRoundTrip == [pc |-> "idle"]

\* The input files an earlier run that ended in failure left under temp/input:
\* for the assets in S, what their URL serves.
StaleFiles(us, res, S) ==
    [p \in { input_file(us[a]) : a \in S } |->
        res[CHOOSE a \in S : input_file(us[a]) = p]]

\* args.url when --url is absent, and when it is the empty string
None == << >>
EmptyUrl == << "" >>
Args == [url : UrlArgs \cup {None, EmptyUrl}]

\* "if args.url:"
Truthy(url) == url # None /\ url # EmptyUrl

\* main with --url building the module all the same
main_config_keep_module(a) ==
    IF Truthy(a.url)
    THEN [urls |-> << a.url >>, build_module |-> TRUE, args |-> a]
    ELSE [urls |-> DEFAULT_DOWNLOADING_FONTS, build_module |-> TRUE, args |-> a]

\* urls and build_module as main sets them from args
main_config(a) ==
    IF Truthy(a.url)
    THEN [urls |-> << a.url >>, build_module |-> FALSE, args |-> a]
    ELSE [urls |-> DEFAULT_DOWNLOADING_FONTS, build_module |-> TRUE, args |-> a]

RunConfigs == { main_config(a) : a \in Args }

InitRun(cfg, res, S) ==
    /\ args = cfg.args
    /\ urls = cfg.urls
    /\ build_module = cfg.build_module
    /\ resource = res
    /\ mainpc = "gather"
    /\ download_sem = SEM_CAPACITY
    /\ dl = [d \in 0..Len(cfg.urls) |->
                [pc |-> IF d = 0 /\ ~cfg.build_module THEN "absent" ELSE "pending",
                 status |-> 0, requests |-> 0, result |-> "none"]]
    /\ chain = [a \in 1..Len(cfg.urls) |-> "pending"]
    /\ member = [a \in 1..Len(cfg.urls) |-> << >>]
    /\ out_ttfs = [a \in 1..Len(cfg.urls) |-> << >>]
    /\ pack_args = [a \in 1..Len(cfg.urls) |-> << >>]
    /\ first_done = [a \in 1..Len(cfg.urls) |-> -1]
    /\ submits = << >>
    /\ executor = "running"
    /\ rmtrees = 0
    /\ files = StaleFiles(cfg.urls, res, S)
    /\ dirs = UNION { Ancestors(input_file(cfg.urls[a])) : a \in S }
    /\ writes = {}

\* A run that starts with no staging directory.
Init ==
    /\ \E cfg \in RunConfigs :
         \E res \in [1..Len(cfg.urls) -> Contents] :
            /\ FontsServed(res, Len(cfg.urls)) <= MaxFonts
            /\ InitRun(cfg, res, {})
    /\ tf = NoTransform
    /\ rt = NoRoundTrip

\* A run that starts after an earlier run that ended in failure, which left
\* the input files of some assets under temp/input.
InitRerun ==
    /\ \E cfg \in RunConfigs :
         \E res \in [1..Len(cfg.urls) -> Contents] :
           \E S \in SUBSET (1..Len(cfg.urls)) :
              /\ FontsServed(res, Len(cfg.urls)) <= MaxFonts
              /\ InitRun(cfg, res, S)
    /\ tf = NoTransform
    /\ rt = NoRoundTrip

\* --------------------------------------------------------------- downloads
LoopRuns == mainpc = "gather"

\* leaving "async with actx": the slot goes back to download_sem
Release(d) == IF Gated(d) THEN download_sem + 1 ELSE download_sem

\* process_font(executor, in_font, out_font, temp_dir) up to its first await,
\* on the file system fs: the chain's next position and what it submitted.
process_ttf(a, sub) ==
    [chain |-> "transform", member |-> << >>, out |-> << >>,
     sub |-> Submit(sub, TransformOf(a, -1))]

\* process_ttc submitting the transform of every member along with its unpack
process_ttc_eager(a, n, sub) ==
    [chain |-> "gather",
     member |-> [i \in 0..(n - 1) |-> "unpack"],
     out |-> [k \in 1..n |-> ttf_out(input_file(urls[a]), k - 1)],
     sub |-> SubmitAll(sub, { UnpackOf(a, i) : i \in 0..(n - 1) }
                              \cup { TransformOf(a, i) : i \in 0..(n - 1) })]

process_ttc(a, n, sub) ==
    [chain |-> "gather",
     member |-> [i \in 0..(n - 1) |-> "unpack"],
     out |-> [k \in 1..n |-> ttf_out(input_file(urls[a]), k - 1)],
     sub |-> SubmitAll(sub, { UnpackOf(a, i) : i \in 0..(n - 1) })]

process_font(a, fs, sub) ==
    LET in_font == input_file(urls[a]) IN
    IF in_font \notin DOMAIN fs
    THEN [chain |-> "failed", member |-> << >>, out |-> << >>, sub |-> sub]
    ELSE IF is_ttc(fs[in_font])
         THEN process_ttc(a, fs[in_font].n, sub)
         ELSE process_ttf(a, sub)

\* download_file returned (True or False) to download_and_process_file, which
\* ignores the value and goes on to process_font; the installer download's
\* value goes to gather.
AfterDownload(d, fs) ==
    IF d = Installer
    THEN UNCHANGED << chain, member, out_ttfs, submits >>
    ELSE LET r == process_font(d, fs, submits) IN
         /\ chain' = [chain EXCEPT ![d] = r.chain]
         /\ member' = [member EXCEPT ![d] = r.member]
         /\ out_ttfs' = [out_ttfs EXCEPT ![d] = r.out]
         /\ submits' = r.sub

\* download_file raised: the exception ends download_and_process_file.
DownloadRaised(d) ==
    /\ chain' = IF d = Installer THEN chain ELSE [chain EXCEPT ![d] = "failed"]
    /\ UNCHANGED << member, out_ttfs, submits >>

\* "async with actx" is entered and client.stream("GET", url) is awaited.
StartDownload(d) ==
    /\ LoopRuns
    /\ dl[d].pc = "pending"
    /\ Gated(d) => download_sem > 0
    /\ download_sem' = IF Gated(d) THEN download_sem - 1 ELSE download_sem
    /\ dl' = [dl EXCEPT ![d].pc = "connecting", ![d].requests = @ + 1]
    /\ chain' = IF d = Installer THEN chain ELSE [chain EXCEPT ![d] = "download"]
    /\ UNCHANGED << urls, build_module, resource, mainpc, member, out_ttfs,
                    pack_args, first_done, submits, executor, rmtrees, files,
                    dirs, writes, tf, rt, args >>

\* The HTTP client raises while connecting.
ConnectError(d) ==
    /\ LoopRuns
    /\ dl[d].pc = "connecting"
    /\ dl' = [dl EXCEPT ![d].pc = "raised"]
    /\ download_sem' = Release(d)
    /\ DownloadRaised(d)
    /\ UNCHANGED << urls, build_module, resource, mainpc, pack_args, first_done,
                    executor, rmtrees, files, dirs, writes, tf, rt, args >>

\* The response headers arrive with a status.
Response(d, status) ==
    /\ LoopRuns
    /\ dl[d].pc = "connecting"
    /\ IF status_ok(status)
       THEN /\ dl' = [dl EXCEPT ![d].pc = "streaming", ![d].status = status]
            /\ dirs' = MkParents(dirs, save_path(d))
            /\ files' = WriteFile(files, save_path(d), partial_content)
            /\ writes' = writes \cup { MkRecord(DownloadOf(d), save_path(d)),
                                       OpenRecord(DownloadOf(d), save_path(d)) }
            /\ UNCHANGED << download_sem, chain, member, out_ttfs, submits >>
       ELSE /\ dl' = [dl EXCEPT ![d].pc = "returned", ![d].status = status,
                                ![d].result = "False"]
            /\ download_sem' = Release(d)
            /\ AfterDownload(d, files)
            /\ UNCHANGED << files, dirs, writes >>
    /\ UNCHANGED << urls, build_module, resource, mainpc, pack_args, first_done,
                    executor, rmtrees, tf, rt, args >>

\* The HTTP client raises while the body is streamed.
StreamError(d) ==
    /\ LoopRuns
    /\ dl[d].pc = "streaming"
    /\ dl' = [dl EXCEPT ![d].pc = "raised"]
    /\ download_sem' = Release(d)
    /\ DownloadRaised(d)
    /\ UNCHANGED << urls, build_module, resource, mainpc, pack_args, first_done,
                    executor, rmtrees, files, dirs, writes, tf, rt, args >>

\* The last chunk is written; download_file returns True.
StreamDone(d) ==
    /\ LoopRuns
    /\ dl[d].pc = "streaming"
    /\ dl' = [dl EXCEPT ![d].pc = "returned", ![d].result = "True"]
    /\ download_sem' = Release(d)
    /\ files' = WriteFile(files, save_path(d),
                          IF d = Installer THEN script_content ELSE resource[d])
    /\ AfterDownload(d, files')
    /\ UNCHANGED << urls, build_module, resource, mainpc, pack_args, first_done,
                    executor, rmtrees, dirs, writes, tf, rt, args >>

\* ------------------------------------------------------------ worker tasks
\* What process_ttf_worker(in_ttf, out_ttf, temp_dir) leaves on disk, by how it
\* ends: "ok", "patch_raised" (chws_tool.add_chws raises) or "rewrite_raised"
\* (loading, subsetting, instancing or saving raises).
WorkerDirs(ds, in_ttf, out_ttf, outcome) ==
    IF outcome = "ok"
    THEN MkParents(MkParents(ds, chws_output(in_ttf)), out_ttf)
    ELSE MkParents(ds, chws_output(in_ttf))

WorkerFiles(fs, in_ttf, out_ttf, outcome) ==
    IF outcome = "ok"
    THEN WriteFile(WriteFile(fs, chws_output(in_ttf), ttf_content), out_ttf, ttf_content)
    ELSE IF outcome = "rewrite_raised"
         THEN WriteFile(fs, chws_output(in_ttf), ttf_content)
         ELSE fs

WorkerWrites(a, i, in_ttf, out_ttf, outcome) ==
    { MkRecord(PatchOf(a, i), chws_output(in_ttf)) }
    \cup (IF outcome # "patch_raised"
          THEN { OpenRecord(PatchOf(a, i), chws_output(in_ttf)) } ELSE {})
    \cup (IF outcome = "ok"
          THEN { MkRecord(TransformOf(a, i), out_ttf),
                 OpenRecord(TransformOf(a, i), out_ttf) } ELSE {})

WorkerOutcomes == {"ok", "patch_raised", "rewrite_raised"}

\* asyncio.gather(*coros) in process_ttc: a member that raises ends the await
\* with that exception; the other members are left running.
GatherRaised(a) ==
    chain' = IF chain[a] = "gather" THEN [chain EXCEPT ![a] = "failed"] ELSE chain

\* unpack_ttc_worker(in_ttc, index, input_ttf) ends; on success
\* unpack_and_process_ttf goes on to process_ttf, which submits the transform.
UnpackDone(a, i, ok) ==
    LET out_file == input_ttf(input_file(urls[a]), i) IN
    /\ LoopRuns
    /\ i \in DOMAIN member[a]
    /\ member[a][i] = "unpack"
    /\ IF ok
       THEN /\ dirs' = MkParents(dirs, out_file)
            /\ files' = WriteFile(files, out_file, ttf_content)
            /\ writes' = writes \cup { MkRecord(UnpackOf(a, i), out_file),
                                       OpenRecord(UnpackOf(a, i), out_file) }
            /\ member' = [member EXCEPT ![a][i] = "transform"]
            /\ submits' = Submit(submits, TransformOf(a, i))
            /\ UNCHANGED chain
       ELSE /\ member' = [member EXCEPT ![a][i] = "failed"]
            /\ GatherRaised(a)
            /\ UNCHANGED << files, dirs, writes, submits >>
    /\ UNCHANGED << urls, build_module, resource, mainpc, download_sem, dl,
                    out_ttfs, pack_args, first_done, executor, rmtrees, tf, rt, args >>

\* process_ttf_worker(input_ttf, ttf_out, temp_dir) of member i ends.
TransformDone(a, i, outcome) ==
    LET in_ttf == input_ttf(input_file(urls[a]), i)
        out_ttf == ttf_out(input_file(urls[a]), i) IN
    /\ LoopRuns
    /\ i \in DOMAIN member[a]
    /\ member[a][i] = "transform"
    /\ dirs' = WorkerDirs(dirs, in_ttf, out_ttf, outcome)
    /\ files' = WorkerFiles(files, in_ttf, out_ttf, outcome)
    /\ writes' = writes \cup WorkerWrites(a, i, in_ttf, out_ttf, outcome)
    /\ IF outcome = "ok"
       THEN /\ member' = [member EXCEPT ![a][i] = "done"]
            /\ first_done' = IF first_done[a] = -1
                             THEN [first_done EXCEPT ![a] = i] ELSE first_done
            /\ UNCHANGED chain
       ELSE /\ member' = [member EXCEPT ![a][i] = "failed"]
            /\ GatherRaised(a)
            /\ UNCHANGED first_done
    /\ UNCHANGED << urls, build_module, resource, mainpc, download_sem, dl,
                    out_ttfs, pack_args, submits, executor, rmtrees, tf, rt, args >>

\* process_ttf_worker(in_font, out_font, temp_dir) of a single font ends.
FontTransformDone(a, outcome) ==
    LET in_ttf == input_file(urls[a])
        out_ttf == output_file(urls[a]) IN
    /\ LoopRuns
    /\ chain[a] = "transform"
    /\ dirs' = WorkerDirs(dirs, in_ttf, out_ttf, outcome)
    /\ files' = WorkerFiles(files, in_ttf, out_ttf, outcome)
    /\ writes' = writes \cup WorkerWrites(a, -1, in_ttf, out_ttf, outcome)
    /\ chain' = [chain EXCEPT ![a] = IF outcome = "ok" THEN "done" ELSE "failed"]
    /\ UNCHANGED << urls, build_module, resource, mainpc, download_sem, dl, member,
                    out_ttfs, pack_args, first_done, submits, executor, rmtrees, tf, rt, args >>

\* gather returning as soon as one member task has returned
AnyMemberDone(a) == \E i \in DOMAIN member[a] : member[a][i] = "done"

\* await asyncio.gather(*coros) returns once every member task has returned.
AllMembersDone(a) == \A i \in DOMAIN member[a] : member[a][i] = "done"

\* loop.run_in_executor(executor, pack_ttc, out_ttfs, out_ttc)
SubmitPack(a) ==
    /\ LoopRuns
    /\ chain[a] = "gather"
    /\ AllMembersDone(a)
    /\ pack_args' = [pack_args EXCEPT ![a] = out_ttfs[a]]
    /\ submits' = Submit(submits, PackOf(a))
    /\ chain' = [chain EXCEPT ![a] = "pack"]
    /\ UNCHANGED << urls, build_module, resource, mainpc, download_sem, dl, member,
                    out_ttfs, first_done, executor, rmtrees, files, dirs, writes, tf, rt, args >>

\* pack_ttc(ttfs, out_ttc) ends: it opens every path of ttfs, in order, and
\* saves the collection; a path that does not exist makes it raise.
PackDone(a, ok) ==
    LET out_ttc == output_file(urls[a])
        ttfs == pack_args[a]
        saved == ok /\ \A k \in 1..Len(ttfs) : ttfs[k] \in DOMAIN files IN
    /\ LoopRuns
    /\ chain[a] = "pack"
    /\ IF saved
       THEN /\ dirs' = MkParents(dirs, out_ttc)
            /\ files' = WriteFile(files, out_ttc, ttc_content(Len(ttfs)))
            /\ writes' = writes \cup { MkRecord(PackOf(a), out_ttc),
                                       OpenRecord(PackOf(a), out_ttc) }
       ELSE UNCHANGED << files, dirs, writes >>
    /\ chain' = [chain EXCEPT ![a] = IF saved THEN "done" ELSE "failed"]
    /\ UNCHANGED << urls, build_module, resource, mainpc, download_sem, dl, member,
                    out_ttfs, pack_args, first_done, submits, executor, rmtrees, tf, rt, args >>

\* -------------------------------------------------------------------- main
\* A task handed to asyncio.gather(*futures) in main has raised.
SomeTaskRaised ==
    \/ \E a \in Assets : chain[a] = "failed"
    \/ dl[Installer].pc = "raised"

\* gather returning as soon as one chain has returned
AnyTaskReturned == \E a \in Assets : chain[a] = "done"

\* Every task handed to asyncio.gather(*futures) in main has returned.
AllTasksReturned ==
    /\ \A a \in Assets : chain[a] = "done"
    /\ dl[Installer].pc \in {"absent", "returned"}

\* gather raises the first exception into main, which has no handler: main
\* ends, and asyncio.run cancels every task that is left before the process
\* exits with the traceback.  A cancelled download leaves its "async with".
MainRaise ==
    /\ LoopRuns
    /\ SomeTaskRaised
    /\ mainpc' = "exit1"
    /\ dl' = [d \in Downloads |->
                IF dl[d].pc \in {"pending", "connecting", "streaming"}
                THEN [dl[d] EXCEPT !.pc = "cancelled"] ELSE dl[d]]
    /\ download_sem' = download_sem
          + Cardinality({ d \in Downloads :
                            Gated(d) /\ dl[d].pc \in {"connecting", "streaming"} })
    /\ UNCHANGED << urls, build_module, resource, chain, member, out_ttfs,
                    pack_args, first_done, submits, executor, rmtrees, files,
                    dirs, writes, tf, rt, args >>

\* executor.shutdown()
MainShutdown ==
    /\ LoopRuns
    /\ AllTasksReturned
    /\ executor' = "shutdown"
    /\ mainpc' = "shutdown"
    /\ UNCHANGED << urls, build_module, resource, download_sem, dl, chain, member,
                    out_ttfs, pack_args, first_done, submits, rmtrees, files,
                    dirs, writes, tf, rt, args >>

\* shutil.rmtree(temp_dir), which raises when temp does not exist
MainRmtree ==
    /\ mainpc = "shutdown"
    /\ rmtrees' = rmtrees + 1
    /\ files' = RmtreeFiles(files)
    /\ dirs' = RmtreeDirs(dirs)
    /\ mainpc' = IF StagingExists THEN "exit0" ELSE "exit1"
    /\ UNCHANGED << urls, build_module, resource, download_sem, dl, chain, member,
                    out_ttfs, pack_args, first_done, submits, executor, writes, tf, rt, args >>

Next ==
    \/ \E d \in Downloads : StartDownload(d)
    \/ \E d \in Downloads : ConnectError(d)
    \/ \E d \in Downloads : \E status \in Statuses : Response(d, status)
    \/ \E d \in Downloads : StreamError(d)
    \/ \E d \in Downloads : StreamDone(d)
    \/ \E a \in Assets : \E i \in 0..(MaxFonts - 1) : \E ok \in BOOLEAN : UnpackDone(a, i, ok)
    \/ \E a \in Assets : \E i \in 0..(MaxFonts - 1) : \E o \in WorkerOutcomes : TransformDone(a, i, o)
    \/ \E a \in Assets : \E o \in WorkerOutcomes : FontTransformDone(a, o)
    \/ \E a \in Assets : SubmitPack(a)
    \/ \E a \in Assets : \E ok \in BOOLEAN : PackDone(a, ok)
    \/ MainRaise
    \/ MainShutdown
    \/ MainRmtree

Spec == Init /\ [][Next]_vars

SpecRerun == InitRerun /\ [][Next]_vars

\* main run on a list of two distinct URLs in place of the built-in mapping.
PathConfigs ==
    { [urls |-> <<q[1], q[2]>>, build_module |-> TRUE, args |-> [url |-> None]] :
        q \in { r \in AnyUrls \X AnyUrls : r[1] # r[2] } }

InitPaths ==
    /\ \E cfg \in PathConfigs :
         \E res \in [1..Len(cfg.urls) -> Contents] :
            /\ FontsServed(res, Len(cfg.urls)) <= MaxFonts
            /\ InitRun(cfg, res, {})
    /\ tf = NoTransform
    /\ rt = NoRoundTrip

SpecPaths == InitPaths /\ [][Next]_vars

\* main run on a list of three URLs in place of the built-in mapping: one
\* asset more than download_sem has slots.
GateUrls == << <<"a", "One.ttf">>, <<"a", "Two.ttf">>, <<"a", "Three.ttf">> >>
GateConfig == [urls |-> GateUrls, build_module |-> TRUE, args |-> [url |-> None]]

InitGate ==
    /\ \E res \in [1..Len(GateUrls) -> Contents] :
          /\ FontsServed(res, Len(GateUrls)) <= MaxFonts
          /\ InitRun(GateConfig, res, {})
    /\ tf = NoTransform
    /\ rt = NoRoundTrip

SpecGate == InitGate /\ [][Next]_vars

\* main run with --url on a server that may also return a file of fewer than
\* four bytes.
ServedContents == Contents \cup {short_content, partial_content}

InitUrl ==
    /\ \E u \in UrlArgs :
         \E res \in [1..1 -> ServedContents] :
            InitRun(main_config([url |-> u]), res, {})
    /\ tf = NoTransform
    /\ rt = NoRoundTrip

SpecUrl == InitUrl /\ [][Next]_vars

\* ------------------------------------------------- process_ttf_worker
\* The transform of one font, step by step.  A font is a record [cmap, tables]:
\* its character map (codepoint -> glyph id) and which of the tables fvar,
\* VORG and VVAR it has.  chws_tool, nototools.font_data and
\* fontTools.varLib.instancer are libraries outside this repository; they are
\* modelled by their contracts.

EMOJI_IN_CJK ==
    { 9917, 9918, 127374, 127377, 127378, 127379, 127380, 127381, 127382, 127383,
      127384, 127385, 127386, 127489, 127514, 127535, 127538, 127539, 127540,
      127541, 127542, 127544, 127545, 127546, 127568, 127569 }

ANDROID_EMOJI ==
    { 9728, 9729, 9742, 9757, 9786, 9824, 9827, 9829, 9830, 9996, 10052, 10084 }

\* set(tool_utils.parse_int_ranges("0000-001F"))
CONTROL_CHARS == 0..31

\* EXCLUDED_CODEPOINTS without the control characters
EXCLUDED_CODEPOINTS_emoji_only == EMOJI_IN_CJK \cup ANDROID_EMOJI

EXCLUDED_CODEPOINTS == EMOJI_IN_CJK \cup ANDROID_EMOJI \cup CONTROL_CHARS

\* The codepoints the fonts of the transform runs are drawn over: TAB, the last
\* control character, SPACE, 'A', SOCCER BALL, HEAVY BLACK HEART, CIRCLED
\* IDEOGRAPH ACCEPT.
SampleCodepoints == { 9, 31, 32, 65, 9917, 10084, 127569 }

VarTables == { "fvar", "VORG", "VVAR" }

CharMaps == UNION { [D -> 1..MaxGlyph] : D \in SUBSET SampleCodepoints }

Fonts == [cmap : CharMaps, tables : SUBSET VarTables]

NoFont == [cmap |-> << >>, tables |-> {"none"}]

\* chws_tool.add_chws(in_ttf, chws_output): adds the chws/vchw features and
\* leaves the character map and the variation tables as they are.
add_chws(font) == font

\* font_data.delete_from_cmap(font, chars): drops every codepoint of chars
\* that the character map has; a codepoint it does not have is skipped.
delete_from_cmap(font, chars) ==
    [font EXCEPT !.cmap = [c \in (DOMAIN font.cmap) \ chars |-> font.cmap[c]]]

\* del font['VORG'];  font['VVAR'].table.VOrgMap = None: a KeyError when the
\* font lacks either table.
HasVerticalTables(font) == "VORG" \in font.tables /\ "VVAR" \in font.tables

\* del font['VORG'] and instancer.instantiateVariableFont(font,
\* {'wght': (100, 400, 900)}, inplace=True, updateFontNames=False): the axis
\* limit is a (min, default, max) triple, which restricts the weight axis to
\* that range and moves its default to 400; fvar stays.
instantiate(font) == [font EXCEPT !.tables = @ \ {"VORG"}]

TransformStart ==
    /\ tf.pc = "start"
    /\ \/ tf' = [tf EXCEPT !.pc = "patched", !.chws = add_chws(tf.in)]
       \/ tf' = [tf EXCEPT !.pc = "raised", !.error = "add_chws"]
    /\ UNCHANGED << runvars, rt, args >>

\* font = ttLib.TTFont(chws_output); delete_from_cmap(font, EXCLUDED_CODEPOINTS)
TransformSubset ==
    /\ tf.pc = "patched"
    /\ tf' = [tf EXCEPT !.pc = "subset",
                        !.font = delete_from_cmap(tf.chws, EXCLUDED_CODEPOINTS)]
    /\ UNCHANGED << runvars, rt, args >>

\* if 'fvar' in font: ...
TransformInstance ==
    /\ tf.pc = "subset"
    /\ tf' = IF "fvar" \in tf.font.tables
             THEN IF HasVerticalTables(tf.font)
                  THEN [tf EXCEPT !.pc = "instanced", !.font = instantiate(tf.font)]
                  ELSE [tf EXCEPT !.pc = "raised", !.error = "KeyError"]
             ELSE [tf EXCEPT !.pc = "instanced"]
    /\ UNCHANGED << runvars, rt, args >>

\* ensure_parent_dir(out_ttf); font.save(out_ttf)
TransformSave ==
    /\ tf.pc = "instanced"
    /\ tf' = [tf EXCEPT !.pc = "saved", !.out = tf.font]
    /\ UNCHANGED << runvars, rt, args >>

NoRun == [urls |-> << >>, build_module |-> FALSE, args |-> [url |-> None]]

InitTransform ==
    /\ InitRun(NoRun, << >>, {})
    /\ \E F \in Fonts :
         tf = [pc |-> "start", in |-> F, chws |-> NoFont, font |-> NoFont,
               out |-> NoFont, error |-> "none"]
    /\ rt = NoRoundTrip

NextTransform ==
    \/ TransformStart
    \/ TransformSubset
    \/ TransformInstance
    \/ TransformSave

SpecTransform == InitTransform /\ [][NextTransform]_vars

\* ------------------------------------- unpack_ttc and pack_ttc, round trip
MaxMembers == 3

\* the fonts a collection may hold
Members == {"m0", "m1", "m2"}
Collections == UNION { [1..k -> Members] : k \in 1..MaxMembers }
CollectionPaths == { <<"in", "Font.ttc">>, <<"in", "sub", "Other.ttc">> }
OutDirs == { <<"out">>, <<"in">> }

\* Path(out_dir) / (Path(in_ttc).name + f"#{i}.ttf")
unpack_out_no_index(in_ttc, out_dir, i) == out_dir \o << PathName(in_ttc) \o ".ttf" >>
unpack_out(in_ttc, out_dir, i) == out_dir \o << MemberName(in_ttc, i) >>

\* for ttf in ttfs: ttc.fonts.append(ttLib.TTFont(ttf))
pack_fonts(ttfs, disk) == [ k \in 1..Len(ttfs) |-> disk[ttfs[k]] ]

\* The indices range(len(ttc)) of a collection.
Indices(ttc) == 0..(Len(ttc) - 1)

\* unpack_ttc(executor, in_ttc, out_dir) up to its await: the list of paths
\* is built in index order and one unpack_ttc_worker is submitted per index.
UnpackCall ==
    /\ rt.pc = "start"
    /\ rt' = [rt EXCEPT
                !.pc = "unpacking",
                !.out_ttfs = [ k \in 1..Len(rt.ttc) |->
                                 unpack_out(rt.in_ttc, rt.out_dir, k - 1) ],
                !.worker = [ i \in Indices(rt.ttc) |-> "running" ]]
    /\ UNCHANGED << runvars, tf, args >>

\* unpack_ttc_worker(in_ttc, i, ttf_out) ends: font = ttc[index] is saved to
\* out_file, or the worker raises.
UnpackWorkerDone(i, ok) ==
    /\ rt.pc \in {"unpacking", "unpack_raised"}
    /\ i \in DOMAIN rt.worker
    /\ rt.worker[i] = "running"
    /\ rt' = [rt EXCEPT
                !.worker[i] = IF ok THEN "done" ELSE "raised",
                !.disk = IF ok
                         THEN [ q \in DOMAIN rt.disk \cup {rt.out_ttfs[i + 1]} |->
                                  IF q = rt.out_ttfs[i + 1]
                                  THEN rt.ttc[i + 1] ELSE rt.disk[q] ]
                         ELSE @]
    /\ UNCHANGED << runvars, tf, args >>

\* await asyncio.gather(*futures) returns and unpack_ttc returns out_ttfs.
UnpackReturn ==
    /\ rt.pc = "unpacking"
    /\ \A i \in DOMAIN rt.worker : rt.worker[i] = "done"
    /\ rt' = [rt EXCEPT !.pc = "returned", !.result = rt.out_ttfs]
    /\ UNCHANGED << runvars, tf, args >>

\* await asyncio.gather(*futures) raises the first exception of a worker.
UnpackRaise ==
    /\ rt.pc = "unpacking"
    /\ \E i \in DOMAIN rt.worker : rt.worker[i] = "raised"
    /\ rt' = [rt EXCEPT !.pc = "unpack_raised"]
    /\ UNCHANGED << runvars, tf, args >>

\* pack_ttc(ttfs, out_ttc) on the list unpack_ttc returned.
PackCall(ok) ==
    /\ rt.pc = "returned"
    /\ rt' = IF ok
             THEN [rt EXCEPT !.pc = "packed",
                             !.packed = pack_fonts(rt.result, rt.disk)]
             ELSE [rt EXCEPT !.pc = "pack_raised"]
    /\ UNCHANGED << runvars, tf, args >>

InitRoundTrip ==
    /\ InitRun(NoRun, << >>, {})
    /\ tf = NoTransform
    /\ \E C \in Collections, in_ttc \in CollectionPaths, out_dir \in OutDirs :
         rt = [pc |-> "start", ttc |-> C, in_ttc |-> in_ttc, out_dir |-> out_dir,
               out_ttfs |-> << >>, worker |-> << >>, disk |-> << >>,
               result |-> << >>, packed |-> << >>]

NextRoundTrip ==
    \/ UnpackCall
    \/ \E i \in 0..(MaxMembers - 1), ok \in BOOLEAN : UnpackWorkerDone(i, ok)
    \/ UnpackReturn
    \/ UnpackRaise
    \/ \E ok \in BOOLEAN : PackCall(ok)

SpecRoundTrip == InitRoundTrip /\ [][NextRoundTrip]_vars


\* ================================================================== claims
Exited == mainpc \in {"exit0", "exit1"}

\* download_file calls whose transfer is under way
ActiveDownloads == { d \in Downloads : dl[d].pc \in {"connecting", "streaming"} }

Is2xx(status) == status \in 200..299

\* C1: at no point of a run are more than 2 (the gate capacity) download_file
\* transfers active at once, counting every download the run launches.
C1_AtMostCapacityActive == Cardinality(ActiveDownloads) <= SEM_CAPACITY

\* C2: when a run has ended, on the success path or on a failure path, no
\* staging file or directory is left, and rmtree ran at most once.
C2_StagingRemovedAtExit == Exited => (~StagingExists /\ rmtrees <= 1)

\* C3: pack_ttc is submitted only once every member's transform has completed,
\* with the processed member paths in index order 0..N-1, whatever order the
\* members finished in; with a failed member it is never submitted.
C3_PackAfterAllInOrder ==
    \A a \in Assets :
        LET N == Cardinality(DOMAIN member[a]) IN
        /\ Submitted(PackOf(a)) > 0 =>
              /\ N >= 1
              /\ \A i \in DOMAIN member[a] : member[a][i] = "done"
              /\ pack_args[a] = [k \in 1..N |-> ttf_out(input_file(urls[a]), k - 1)]
              /\ chain[a] = "pack" =>
                    \A k \in 1..N : pack_args[a][k] \in DOMAIN files
        /\ (\E i \in DOMAIN member[a] : member[a][i] = "failed") =>
              /\ Submitted(PackOf(a)) = 0
              /\ pack_args[a] = << >>

\* C3 witness: pack_ttc was submitted for a collection of at least two members
\* whose last member finished its transform first.
C3_Witness ==
    \E a \in Assets :
        /\ Submitted(PackOf(a)) = 1
        /\ Len(pack_args[a]) >= 2
        /\ first_done[a] = Len(pack_args[a]) - 1

\* C4: a response whose status is not 2xx makes download_file return False
\* without raising, without creating the destination file or its parent
\* directories, after exactly one request.
C4_Non2xxReturnsFalse ==
    \A d \in Downloads :
        (dl[d].status # 0 /\ ~Is2xx(dl[d].status)) =>
            /\ dl[d].pc = "returned"
            /\ dl[d].result = "False"
            /\ dl[d].requests = 1
            /\ \A r \in writes : r.w # DownloadOf(d)

\* C4 witness: a download was answered 404 and returned False.
C4_Witness ==
    \E d \in Downloads : dl[d].status = 404 /\ dl[d].result = "False"

\* C5: no transport failure, a non-2xx status or a network error while
\* connecting or streaming, leaves download_file as an exception.
C5_NoDownloadRaises == \A d \in Downloads : dl[d].pc # "raised"

\* C6: when a run in which an asset chain failed has ended, every asset chain
\* that was in flight has reached its own DONE or FAILED state: no sibling of
\* the failed chain was cut short.
C6_SiblingsSettle ==
    (Exited /\ \E a \in Assets : chain[a] = "failed") =>
        \A b \in Assets : chain[b] \in {"pending", "done", "failed"}

\* C7: a run ends with success status only if no download yielded the failure
\* signal and every chain reached DONE.
C7_SuccessOnlyIfAllDone ==
    mainpc = "exit0" =>
        /\ \A a \in Assets : chain[a] = "done"
        /\ \A d \in Downloads : dl[d].pc # "absent" => dl[d].result = "True"

AssetState(a) ==
    CASE chain[a] = "pending" -> "PENDING"
      [] chain[a] = "download" -> "FETCHING"
      [] chain[a] = "gather" ->
            IF \E i \in DOMAIN member[a] : member[a][i] = "unpack"
            THEN "UNPACKING" ELSE "TRANSFORMING"
      [] chain[a] = "transform" -> "TRANSFORMING"
      [] chain[a] = "pack" -> "PACKING"
      [] chain[a] = "done" -> "DONE"
      [] chain[a] = "failed" -> "FAILED"

\* The artifact process_font finds at asset a's input path is a collection.
FetchedCollection(a) ==
    /\ input_file(urls[a]) \in DOMAIN files
    /\ files[input_file(urls[a])].head = "ttcf"

\* Asset a went through UNPACKING.
Unpacked(a) == Submitted(UnpackOf(a, 0)) > 0

\* One step of asset a's chain is a step of the state machine.
ChainStep(a) ==
    LET s == AssetState(a)
        t == AssetState(a)' IN
    \/ s = t
    \/ s = "PENDING" /\ t = "FETCHING"
    \/ s = "FETCHING" /\ t = "UNPACKING" /\ FetchedCollection(a)'
    \/ s = "FETCHING" /\ t = "TRANSFORMING" /\ ~FetchedCollection(a)'
    \/ s = "UNPACKING" /\ t = "TRANSFORMING"
    \/ s = "TRANSFORMING" /\ t = "PACKING" /\ Unpacked(a)
    \/ s = "TRANSFORMING" /\ t = "DONE" /\ ~Unpacked(a)
    \/ s = "PACKING" /\ t = "DONE"
    \/ s \in {"FETCHING", "UNPACKING", "TRANSFORMING", "PACKING"} /\ t = "FAILED"

\* No request and no worker task is issued twice.
NothingRepeated ==
    /\ \A d \in Downloads : dl[d].requests <= 1
    /\ \A t \in DOMAIN submits : submits[t] <= 1

\* C9: every asset chain moves PENDING -> FETCHING -> (UNPACKING ->)?
\* TRANSFORMING -> (PACKING ->)? DONE, or to FAILED from FETCHING or later;
\* UNPACKING and PACKING happen exactly for a collection, DONE and FAILED are
\* never left, and nothing is fetched, unpacked, transformed or packed twice.
C9_ChainStateMachine ==
    [][(\A a \in Assets : ChainStep(a)) /\ NothingRepeated']_vars

\* C9 witness: a collection went all the way to DONE through unpack and pack,
\* and a single font went to DONE without them.
C9_Witness ==
    \E a, b \in Assets :
        /\ chain[a] = "done" /\ Unpacked(a) /\ Submitted(PackOf(a)) = 1
        /\ chain[b] = "done" /\ ~Unpacked(b) /\ Submitted(PackOf(b)) = 0
        /\ Submitted(TransformOf(b, -1)) = 1

\* The Codepoint Exclusion Set as the specification lists it.
ExclusionSet == (0..31) \cup EMOJI_IN_CJK \cup ANDROID_EMOJI

\* C10: when transform has saved its output, the output character map has no
\* entry for any codepoint of the exclusion set, whether or not the input
\* mapped it, and maps every other codepoint exactly as the input did; the
\* removal itself never makes transform fail.
C10_ExactCmapRemoval ==
    /\ tf.pc = "saved" =>
          \A c \in SampleCodepoints :
              IF c \in ExclusionSet
              THEN c \notin DOMAIN tf.out.cmap
              ELSE /\ c \in DOMAIN tf.out.cmap <=> c \in DOMAIN tf.in.cmap
                   /\ c \in DOMAIN tf.in.cmap => tf.out.cmap[c] = tf.in.cmap[c]
    /\ tf.pc = "raised" => (tf.error = "add_chws" \/ "fvar" \in tf.in.tables)

\* C10 witness: a font mapping exactly 'A', SOCCER BALL and TAB was saved with
\* a character map over 'A' alone.
C10_Witness ==
    /\ tf.pc = "saved"
    /\ DOMAIN tf.in.cmap = {65, 9917, 9}
    /\ DOMAIN tf.out.cmap = {65}
    /\ tf.out.cmap[65] = tf.in.cmap[65]

\* C11 as claimed: for every font with an fvar table transform completes (the
\* instancing step does not raise) and the output is static, with neither fvar
\* nor VORG; a font without fvar keeps the tables the patch step produced.
C11_VariableBecomesStatic ==
    /\ ("fvar" \in tf.in.tables /\ tf.pc = "raised") => tf.error = "add_chws"
    /\ (tf.pc = "saved" /\ "fvar" \in tf.in.tables) =>
          ("fvar" \notin tf.out.tables /\ "VORG" \notin tf.out.tables)
    /\ (tf.pc = "saved" /\ "fvar" \notin tf.in.tables) =>
          tf.out.tables = tf.chws.tables

\* C12: when unpack_ttc has returned, its list has one path per member, the
\* i-th being out_dir/<name of in_ttc>#<i>.ttf, and that file holds member i;
\* pack_ttc on the returned list gives the members of the collection in the
\* same order.
C12_RoundTrip ==
    /\ rt.pc \in {"returned", "packed", "pack_raised"} =>
          /\ Len(rt.result) = Len(rt.ttc)
          /\ \A i \in Indices(rt.ttc) :
                /\ rt.result[i + 1] =
                      rt.out_dir \o << rt.in_ttc[Len(rt.in_ttc)] \o "#"
                                         \o ToString(i) \o ".ttf" >>
                /\ rt.result[i + 1] \in DOMAIN rt.disk
                /\ rt.disk[rt.result[i + 1]] = rt.ttc[i + 1]
    /\ rt.pc = "packed" => rt.packed = rt.ttc

\* C12 witness: a collection of three members, not all the same, went
\* through unpack_ttc and pack_ttc.
C12_Witness ==
    /\ rt.pc = "packed"
    /\ Len(rt.ttc) = 3
    /\ rt.ttc[1] # rt.ttc[2]
    /\ rt.packed = rt.ttc

\* C13: once the executor is shut down or the staging directory removed, no
\* download is pending or active, every chain has returned with all its
\* member, transform and pack tasks finished, and after the removal no file
\* exists under the staging directory.
C13_TeardownAfterAllSettled ==
    /\ (executor = "shutdown" \/ rmtrees > 0) =>
          /\ \A d \in Downloads : dl[d].pc \in {"absent", "returned"}
          /\ \A a \in Assets :
                /\ chain[a] = "done"
                /\ \A i \in DOMAIN member[a] : member[a][i] = "done"
    /\ rmtrees > 0 => \A q \in DOMAIN files : ~UnderTemp(q)

\* C13 witness: the staging directory was removed after a run in which a
\* collection of two members and the installer script were processed.
C13_Witness ==
    /\ rmtrees = 1
    /\ mainpc = "exit0"
    /\ dl[Installer].pc = "returned"
    /\ \E a \in Assets : DOMAIN member[a] = 0..1
    /\ \E q \in DOMAIN files : ~UnderTemp(q)

\* C14: with --url U the run has exactly one chain, for U, and no installer
\* download; without --url it has one chain per entry of the built-in
\* mapping, for that entry's URL, and exactly one installer download.
C14_RunConfiguration ==
    /\ args.url \in UrlArgs =>
          /\ urls = << args.url >>
          /\ DOMAIN chain = {1}
          /\ DOMAIN dl = {Installer, 1}
          /\ dl[Installer].pc = "absent" /\ dl[Installer].requests = 0
          /\ \A w \in writes : w.p # INSTALLER_PATH
    /\ args.url = None =>
          /\ urls = DEFAULT_DOWNLOADING_FONTS
          /\ DOMAIN chain = 1..Len(DEFAULT_DOWNLOADING_FONTS)
          /\ DOMAIN dl = {Installer} \cup (1..Len(DEFAULT_DOWNLOADING_FONTS))
          /\ dl[Installer].pc # "absent" /\ dl[Installer].requests <= 1
    /\ \A a \in Assets : dl[a].pc # "absent" /\ dl[a].requests <= 1

\* C14 witness: a run with --url ended with its one download done and no
\* request for the installer script.
C14_Witness ==
    /\ args.url \in UrlArgs
    /\ mainpc = "exit0"
    /\ DOMAIN chain = {1}
    /\ dl[1].requests = 1
    /\ dl[Installer].requests = 0

\* C14 witness: a run without --url made its two asset requests and its one
\* installer request.
C14_WitnessDefault ==
    /\ args.url = None
    /\ \A d \in Downloads : dl[d].requests = 1

\* Gated downloads holding a slot of download_sem
SlotHolders == { d \in ActiveDownloads : Gated(d) }

\* A download that waits on the gate: its task exists, it holds no slot and
\* download_sem has none free.
WaitsOnGate(d) == Gated(d) /\ dl[d].pc = "pending" /\ download_sem = 0

C15_NoSlotLeaks == download_sem + Cardinality(SlotHolders) = SEM_CAPACITY

\* C16 as claimed: for an asset whose download returned the failure signal,
\* no unpack, transform or pack task is submitted and no final output is
\* written, also in a run that starts on what a failed run left behind.
C16_NoTaskAfterFailedDownload ==
    \A a \in Assets :
        dl[a].result = "False" =>
            /\ \A t \in DOMAIN submits : t[2] # a
            /\ output_file(urls[a]) \notin DOMAIN files

\* The staging file of member i of asset a, temp/input_ttf/<name>#<i>.ttf
MemberFile(a, i) ==
    << "temp", "input_ttf", urls[a][Len(urls[a])] \o "#" \o ToString(i) \o ".ttf" >>

\* C17: in process_ttc the unpack of every member is submitted once; the
\* transform of member i is submitted, once, exactly when unpack i has written
\* temp/input_ttf/<name>#<i>.ttf, never while unpack i runs or after it
\* failed; the transform works on the file of that name; members do not wait
\* for each other.
C17_TransformAfterOwnUnpack ==
    \A a \in Assets : \A i \in DOMAIN member[a] :
        /\ Submitted(UnpackOf(a, i)) = 1
        /\ Submitted(TransformOf(a, i)) \in {0, 1}
        /\ Submitted(TransformOf(a, i)) = 1 <=>
              [w |-> UnpackOf(a, i), op |-> "open", p |-> MemberFile(a, i)] \in writes
        /\ member[a][i] = "unpack" => Submitted(TransformOf(a, i)) = 0
        /\ Submitted(TransformOf(a, i)) = 1 => MemberFile(a, i) \in DOMAIN files \/ rmtrees > 0
        /\ \A w \in writes :
              (w.w = PatchOf(a, i) /\ w.op = "open") =>
                  /\ Submitted(TransformOf(a, i)) = 1
                  /\ w.p = << "temp", "intermediate_chws", PathName(MemberFile(a, i)) >>

\* C17 witness: member 1 of a collection has been transformed while member 0
\* is still being unpacked.
C17_Witness ==
    \E a \in Assets :
        /\ {0, 1} \subseteq DOMAIN member[a]
        /\ member[a][0] = "unpack"
        /\ member[a][1] = "done"
        /\ Submitted(TransformOf(a, 1)) = 1
        /\ Submitted(TransformOf(a, 0)) = 0

\* C17 witness of the failure case: unpack 0 failed and its transform was not
\* submitted, while member 1 went on.
C17_WitnessFailedUnpack ==
    \E a \in Assets :
        /\ {0, 1} \subseteq DOMAIN member[a]
        /\ member[a][0] = "failed"
        /\ Submitted(TransformOf(a, 0)) = 0
        /\ Submitted(TransformOf(a, 1)) = 1

\* C18: a downloaded file is handled as a collection exactly when its first
\* four bytes are "ttcf", a file shorter than four bytes never: for a
\* collection one unpack per member is submitted, the pack follows the
\* members and no transform of the whole file is submitted; for any other
\* file exactly one transform is submitted, from the input path to the output
\* path, and no unpack and no pack.
C18_DispatchOnMagic ==
    \A a \in Assets :
        dl[a].result = "True" =>
            IF resource[a].head = "ttcf"
            THEN /\ Submitted(TransformOf(a, -1)) = 0
                 /\ \A i \in 0..(resource[a].n - 1) : Submitted(UnpackOf(a, i)) = 1
                 /\ chain[a] \in {"gather", "pack", "done", "failed"}
                 /\ chain[a] = "done" => Submitted(PackOf(a)) = 1
            ELSE /\ Submitted(TransformOf(a, -1)) = 1
                 /\ \A t \in DOMAIN submits : t[2] = a => t = TransformOf(a, -1)
                 /\ chain[a] \in {"transform", "done", "failed"}
                 /\ \A w \in writes :
                       (w.w = PatchOf(a, -1) /\ w.op = "open") =>
                           w.p = << "temp", "intermediate_chws", PathName(urls[a]) >>
                 /\ \A w \in writes :
                       (w.w = TransformOf(a, -1) /\ w.op = "open") =>
                           w.p = << "system", "fonts", PathName(urls[a]) >>

\* C18 witness: a file of three bytes, the beginning of the tag, went to the
\* single transform.
C18_Witness ==
    /\ dl[1].result = "True"
    /\ resource[1] = short_content
    /\ files[input_file(urls[1])].head = "ttc"
    /\ Submitted(TransformOf(1, -1)) = 1

\* C18 witness: a collection went through unpack, transform and pack.
C18_WitnessCollection ==
    /\ resource[1] = ttc_content(2)
    /\ chain[1] = "done"
    /\ Submitted(PackOf(1)) = 1
    /\ Submitted(TransformOf(1, -1)) = 0

\* C18 witness: a single font was transformed to the output path.
C18_WitnessFont ==
    /\ resource[1] = ttf_content
    /\ chain[1] = "done"
    /\ output_file(urls[1]) \in DOMAIN files
    /\ DOMAIN submits = { TransformOf(1, -1) }

====
